---- MODULE Spec2Model ----
(***************************************************************************)
(* Quantum tic-tac-toe (quantum_tictactoe.py): the move ledger, the        *)
(* entanglement graph and its cycle detection, the collapse of a cycle     *)
(* with its ripple, the win evaluation and the game loop.                  *)
(***************************************************************************)
EXTENDS Integers, Sequences, FiniteSets, TLC

VARIABLES
  board_classical,  \* self.board_classical: cell -> "X", "O" or None
  board_quantum,    \* self.board_quantum: cell -> sequence of labels <<player, id>>
  moves,            \* self.moves: move id -> [player, cells, status, collapsed_to]
  next_move_id,     \* self.next_move_id
  current_player,   \* self.current_player
  pc,               \* where the program is: "turn", "rejected", "cycle", "ripple",
                    \* "judge", "done" or "error"
  last_msg,         \* what play_turn said of the request it read last
  cycle,            \* play_turn's local `cycle` ({} stands for None)
  cycle_queue,      \* the part of sorted(cycle_move_ids) still to be processed
  scan,             \* the ripple's `for` loop has visited the moves with an id below scan
  changed,          \* collapse_cycle's local `changed`
  winner,           \* play's local `winner`
  result,           \* how the game ended: "none", "X", "O", "both" or "draw"
  passes,           \* the passes of `while changed` the running collapse_cycle
                    \* has begun (0 outside the ripple)
  quantum_before    \* the number of quantum moves when that loop began

vars == <<board_classical, board_quantum, moves, next_move_id, current_player,
          pc, last_msg, cycle, cycle_queue, scan, changed, winner, result,
          passes, quantum_before>>

-----------------------------------------------------------------------------
(* Bounds of the model *)

\* The highest square number (1-based) a player types, besides the
\* out-of-range numbers 0 and NumCells + 1.
MaxSquare == 4

\* The number of moves registered in a game: play_turn reads no request
\* once the ledger holds MaxMoves moves.
MaxMoves == 4

-----------------------------------------------------------------------------
(* Constants of the program *)

NumCells == 9
Cells == 0 .. (NumCells - 1)

None == "None"

\* collapsed_to = None
NoCell == -1

\* random.choice of an empty list raises IndexError
IndexError == -2

Players == {"X", "O"}

lines == << <<0, 1, 2>>, <<3, 4, 5>>, <<6, 7, 8>>,
            <<0, 3, 6>>, <<1, 4, 7>>, <<2, 5, 8>>,
            <<0, 4, 8>>, <<2, 4, 6>> >>

-----------------------------------------------------------------------------
(* Helpers for Python's containers *)

Range(s) == { s[k] : k \in DOMAIN s }

Min(S) == CHOOSE x \in S : \A y \in S : x <= y
Max(S) == CHOOSE x \in S : \A y \in S : x >= y

\* sorted(S): the k-th element has k - 1 elements below it
sorted(S) ==
  [ k \in 1 .. Cardinality(S) |->
      CHOOSE x \in S : Cardinality({ y \in S : y < x }) = k - 1 ]

\* The order in which a `for` loop visits a set of small integers: the model
\* follows two of the orders an implementation may use.
Descending(S) ==
  [ k \in 1 .. Cardinality(S) |->
      CHOOSE x \in S : Cardinality({ y \in S : y > x }) = k - 1 ]

IterationOrder(S, desc) == IF desc THEN Descending(S) ELSE sorted(S)

-----------------------------------------------------------------------------
(* check_winner *)

\* the marks of the complete lines: the set `winners`
line_winners(board) ==
  { board[lines[k][1]] : k \in { n \in DOMAIN lines :
        /\ board[lines[n][1]] # None
        /\ board[lines[n][1]] = board[lines[n][2]]
        /\ board[lines[n][2]] = board[lines[n][3]] } }

\* a variant that reports any one of the winners when there are several
check_winner_first(board) ==
  LET winners == line_winners(board)
  IN  IF Cardinality(winners) >= 1 THEN CHOOSE w \in winners : TRUE
      ELSE None

check_winner(board) ==
  LET winners == line_winners(board)
  IN  IF Cardinality(winners) = 1 THEN CHOOSE w \in winners : TRUE
      ELSE IF Cardinality(winners) > 1 THEN "both"
      ELSE None

\* all(c is not None for c in self.board_classical)
board_full(board) == \A c \in Cells : board[c] # None

-----------------------------------------------------------------------------
(* Graph and cycle detection *)

cell_pair(mv) == { mv.cells[1], mv.cells[2] }

\* a variant that leaves the new move in the graph
graph_moves_all(mvs, exclude_move_id) ==
  { mid \in DOMAIN mvs : mvs[mid].status = "quantum" }

\* the moves build_graph does not skip
graph_moves(mvs, exclude_move_id) ==
  { mid \in DOMAIN mvs : mvs[mid].status = "quantum" /\ mid # exclude_move_id }

\* build_graph: adj and edge_to_move; a later move on the same pair of
\* cells overwrites the entry of an earlier one
build_graph(mvs, exclude_move_id) ==
  LET gm == graph_moves(mvs, exclude_move_id)
  IN  [ adj |-> [ c \in Cells |->
                    { IF mvs[mid].cells[1] = c THEN mvs[mid].cells[2]
                                               ELSE mvs[mid].cells[1] :
                        mid \in { m \in gm : c \in cell_pair(mvs[m]) } } ],
        edge_to_move |-> [ e \in { cell_pair(mvs[mid]) : mid \in gm } |->
                    Max({ mid \in gm : cell_pair(mvs[mid]) = e }) ] ]

\* the neighbours pushed for a node, in the order of the `for` loop
RECURSIVE push_neighbours(_, _, _, _)
push_neighbours(stack, path, nbs, visited) ==
  IF nbs = << >> THEN stack
  ELSE push_neighbours(
         IF Head(nbs) \notin visited
           THEN Append(stack, [node |-> Head(nbs), path |-> Append(path, Head(nbs))])
           ELSE stack,
         path, Tail(nbs), visited)

\* the `while stack` loop of find_path; << >> stands for None
RECURSIVE find_path_loop(_, _, _, _, _)
find_path_loop(adj, goal, stack, visited, desc) ==
  IF stack = << >> THEN << >>
  ELSE LET top  == stack[Len(stack)]
           rest == SubSeq(stack, 1, Len(stack) - 1)
       IN  IF top.node = goal THEN top.path
           ELSE IF top.node \in visited
             THEN find_path_loop(adj, goal, rest, visited, desc)
             ELSE find_path_loop(adj, goal,
                    push_neighbours(rest, top.path,
                                    IterationOrder(adj[top.node], desc),
                                    visited \cup {top.node}),
                    visited \cup {top.node}, desc)

find_path(adj, start, goal, desc) ==
  find_path_loop(adj, goal, << [node |-> start, path |-> <<start>>] >>, {}, desc)

\* a variant that reports every quantum move once a path exists
find_cycle_moves_all(mvs, new_move_id, desc) ==
  LET mv   == mvs[new_move_id]
      g    == build_graph(mvs, new_move_id)
      path == find_path(g.adj, mv.cells[1], mv.cells[2], desc)
  IN  IF path = << >> THEN {}
      ELSE graph_moves(mvs, new_move_id) \cup {new_move_id}

\* find_cycle_moves; {} stands for None
find_cycle_moves(mvs, new_move_id, desc) ==
  LET mv   == mvs[new_move_id]
      g    == build_graph(mvs, new_move_id)
      path == find_path(g.adj, mv.cells[1], mv.cells[2], desc)
  IN  IF path = << >> THEN {}
      ELSE { g.edge_to_move[{path[k], path[k + 1]}] : k \in 1 .. (Len(path) - 1) }
             \cup {new_move_id}

-----------------------------------------------------------------------------
(* Collapse mechanics *)

\* a variant that collects the positions 0 and 1 in place of the cells
cycle_options_index(board, mv) ==
  SelectSeq(<<0, 1>>, LAMBDA k : board[mv.cells[k + 1]] = None
                                   \/ board[mv.cells[k + 1]] = mv.player)

\* the list `options` of the cycle phase
cycle_options(board, mv) ==
  SelectSeq(mv.cells, LAMBDA c : board[c] = None \/ board[c] = mv.player)

\* a variant that takes every cell of the move for an option
ripple_options_any(board, mv) == mv.cells

\* the list `options` of the ripple phase
ripple_options(board, mv) ==
  SelectSeq(mv.cells, LAMBDA c : board[c] = None \/ board[c] = mv.player)

\* a variant that always takes the first element
random_choice_first(options) ==
  IF options = << >> THEN {IndexError} ELSE {options[1]}

\* random.choice(options): any element; IndexError on an empty list
random_choice(options) ==
  IF options = << >> THEN {IndexError} ELSE Range(options)

\* a variant without the test for an empty list
cycle_chosen_unguarded(options) == random_choice(options)

\* what the cycle phase collapses a move to: NoCell when there is no option
cycle_chosen(options) ==
  IF options = << >> THEN {NoCell} ELSE random_choice(options)

\* what the ripple phase collapses a move to
ripple_chosen(options) ==
  IF options = << >> THEN {NoCell} ELSE random_choice(options)

\* a variant that does not look at the status of the move
ripple_skips_unmarked(board, mv) ==
  board[mv.cells[1]] = None /\ board[mv.cells[2]] = None

\* the ripple skips a move that is not quantum or touches no classical cell
ripple_skips(board, mv) ==
  \/ mv.status # "quantum"
  \/ board[mv.cells[1]] = None /\ board[mv.cells[2]] = None

\* a variant that records the first cell of the move whatever was chosen
collapsed_first(mv, chosen) ==
  [mv EXCEPT !.status = "collapsed", !.collapsed_to = mv.cells[1]]

\* mv["status"] = "collapsed"; mv["collapsed_to"] = chosen
collapsed(mv, chosen) ==
  [mv EXCEPT !.status = "collapsed", !.collapsed_to = chosen]

\* a variant that writes no mark
marked_nowhere(board, chosen, pl) == board

\* self.board_classical[chosen] = pl
marked(board, chosen, pl) ==
  IF chosen = NoCell THEN board ELSE [board EXCEPT ![chosen] = pl]

label(pl, mid) == <<pl, mid>>

\* the labels a move appends to cell c: one for each of its two cells
\* that is c
move_labels(mv, mid, c) ==
  (IF mv.cells[1] = c THEN <<label(mv.player, mid)>> ELSE << >>)
    \o (IF mv.cells[2] = c THEN <<label(mv.player, mid)>> ELSE << >>)

\* a variant that relabels the cells of every move of the ledger
rebuild_labels_all(mvs) ==
  [ c \in Cells |->
      LET ids == sorted(DOMAIN mvs)
          upto[k \in 0 .. Len(ids)] ==
            IF k = 0 THEN << >>
            ELSE upto[k - 1] \o move_labels(mvs[ids[k]], ids[k], c)
      IN  upto[Len(ids)] ]

\* the rebuild of board_quantum from the moves that are still quantum, in
\* the order of self.moves.items()
rebuild_labels(mvs) ==
  [ c \in Cells |->
      LET ids == sorted({ mid \in DOMAIN mvs : mvs[mid].status = "quantum" })
          upto[k \in 0 .. Len(ids)] ==
            IF k = 0 THEN << >>
            ELSE upto[k - 1] \o move_labels(mvs[ids[k]], ids[k], c)
      IN  upto[Len(ids)] ]

-----------------------------------------------------------------------------
(* play_turn: reading and validating a request *)

\* the numbers a player types
Squares == (0 .. MaxSquare) \cup {NumCells + 1}

\* int(i_str) - 1
to_index(square) == square - 1

\* a variant without the check for classical marks
validate_unmarked(i, j, board) ==
  IF i = j THEN "different"
  ELSE IF ~(0 <= i /\ i <= 8 /\ 0 <= j /\ j <= 8) THEN "range"
  ELSE "ok"

\* the checks of play_turn, in their order
validate(i, j, board) ==
  IF i = j THEN "different"
  ELSE IF ~(0 <= i /\ i <= 8 /\ 0 <= j /\ j <= 8) THEN "range"
  ELSE IF board[i] # None \/ board[j] # None THEN "classical"
  ELSE "ok"

\* what play_turn says of the requests it does not accept
rejections(board) ==
  { validate(to_index(si), to_index(sj), board) : si, sj \in Squares } \ {"ok"}

other_player(pl) == IF pl = "X" THEN "O" ELSE "X"

\* a variant that looks for the full board first
play_outcome_draw_first(board) ==
  IF board_full(board) THEN "draw"
  ELSE IF check_winner(board) # None THEN check_winner(board)
  ELSE "none"

\* what play decides after a turn: the winner first, a draw only then
play_outcome(board) ==
  IF check_winner(board) # None THEN check_winner(board)
  ELSE IF board_full(board) THEN "draw"
  ELSE "none"

\* a variant that takes only three moves or more for a cycle
collapse_needed_long(cyc) == Cardinality(cyc) > 2

\* a variant that calls collapse_cycle after every accepted move
collapse_needed_always(cyc) == TRUE

\* play_turn calls collapse_cycle when find_cycle_moves returned a set
collapse_needed(cyc) == cyc # {}

-----------------------------------------------------------------------------
(* The state after construction *)

Init ==
  /\ board_classical = [c \in Cells |-> None]
  /\ board_quantum = [c \in Cells |-> << >>]
  /\ moves = << >>
  /\ next_move_id = 1
  /\ current_player = "X"
  /\ pc = "turn"
  /\ last_msg = ""
  /\ cycle = {}
  /\ cycle_queue = << >>
  /\ scan = 0
  /\ changed = FALSE
  /\ winner = None
  /\ result = "none"
  /\ passes = 0
  /\ quantum_before = 0

-----------------------------------------------------------------------------
(* play_turn *)

\* the input is not two integers: ValueError and a message; the model
\* reads requests while the ledger holds fewer than cap moves
MalformedWithin(cap) ==
  /\ pc = "turn"
  /\ next_move_id <= cap
  /\ pc' = "rejected"
  /\ last_msg' = "integers"
  /\ UNCHANGED <<board_classical, board_quantum, moves, next_move_id,
                 current_player, cycle, cycle_queue, scan, changed,
                 winner, result, passes, quantum_before>>

Malformed == MalformedWithin(MaxMoves)

\* a request that fails a check: a message
RejectMoveWithin(cap) ==
  /\ pc = "turn"
  /\ next_move_id <= cap
  /\ pc' = "rejected"
  /\ \E msg \in rejections(board_classical) : last_msg' = msg
  /\ UNCHANGED <<board_classical, board_quantum, moves, next_move_id,
                 current_player, cycle, cycle_queue, scan, changed,
                 winner, result, passes, quantum_before>>

RejectMove == RejectMoveWithin(MaxMoves)

\* after the message the loop of play_turn reads the next request
ReadAgain ==
  /\ pc = "rejected"
  /\ pc' = "turn"
  /\ last_msg' = ""
  /\ UNCHANGED <<board_classical, board_quantum, moves, next_move_id,
                 current_player, cycle, cycle_queue, scan, changed,
                 winner, result, passes, quantum_before>>

\* a variant that leaves the counter where it was
next_id_same(n) == n

\* self.next_move_id += 1
next_id(n) == n + 1

\* self.moves[move_id] = {...}: the ledger with the new entry under move_id
registered(mvs, move_id, pl, i, j) ==
  [ k \in DOMAIN mvs \cup {move_id} |->
      IF k = move_id
        THEN [player |-> pl, cells |-> <<i, j>>,
              status |-> "quantum", collapsed_to |-> NoCell]
        ELSE mvs[k] ]

\* the requests the model has play_turn accept: the two squares in
\* ascending order. The order of the pair decides the order of the list
\* `options` and the end find_path starts from, and random.choice and the
\* path do not depend on either.
Requests == { rq \in Squares \X Squares : rq[1] < rq[2] }

\* a request that passes: the move is registered and labelled, and the
\* cycle check decides whether collapse_cycle runs
RegisterMoveFrom(reqs, cap) ==
  /\ pc = "turn"
  /\ next_move_id <= cap
  /\ \E rq \in reqs, desc \in BOOLEAN :
       LET si == rq[1]
           sj == rq[2]
           i == to_index(si)
           j == to_index(sj)
           move_id == next_move_id
           mvs == registered(moves, move_id, current_player, i, j)
           cyc == find_cycle_moves(mvs, move_id, desc)
       IN  /\ validate(i, j, board_classical) = "ok"
           /\ last_msg' = ""
           /\ next_move_id' = next_id(next_move_id)
           /\ moves' = mvs
           /\ board_quantum' =
                [board_quantum EXCEPT
                   ![i] = Append(@, label(current_player, move_id)),
                   ![j] = Append(@, label(current_player, move_id))]
           /\ cycle' = cyc
           /\ IF collapse_needed(cyc)
                THEN pc' = "cycle" /\ cycle_queue' = sorted(cyc)
                ELSE pc' = "judge" /\ cycle_queue' = << >>
  /\ UNCHANGED <<board_classical, current_player, scan, changed, winner, result,
                 passes, quantum_before>>

RegisterMove == RegisterMoveFrom(Requests, MaxMoves)

-----------------------------------------------------------------------------
(* collapse_cycle *)

\* one iteration of the loop over sorted(cycle_move_ids)
CycleStep ==
  /\ pc = "cycle"
  /\ cycle_queue # << >>
  /\ LET mid == Head(cycle_queue)
         mv  == moves[mid]
     IN  \E chosen \in cycle_chosen(cycle_options(board_classical, mv)) :
           IF chosen = IndexError
             THEN /\ pc' = "error"
                  /\ UNCHANGED <<board_classical, moves, cycle_queue, scan, changed,
                                 passes, quantum_before>>
             ELSE /\ board_classical' = marked(board_classical, chosen, mv.player)
                  /\ moves' = [moves EXCEPT ![mid] = collapsed(mv, chosen)]
                  /\ cycle_queue' = Tail(cycle_queue)
                  /\ IF Tail(cycle_queue) = << >>
                       THEN /\ pc' = "ripple"
                            /\ scan' = 0
                            /\ changed' = FALSE
                            /\ passes' = 1
                            /\ quantum_before' =
                                 Cardinality({ k \in DOMAIN moves \ {mid} :
                                                 moves[k].status = "quantum" })
                       ELSE UNCHANGED <<pc, scan, changed, passes, quantum_before>>
  /\ UNCHANGED <<board_quantum, next_move_id, current_player, last_msg, cycle,
                 winner, result>>

\* the moves the ripple's loop, having visited the ids below `from`, does
\* not pass over in the rest of its pass (self.moves.items() yields the
\* moves in insertion order, which is ascending id order)
ripple_pending(board, mvs, from) ==
  { mid \in DOMAIN mvs : mid >= from /\ ~ripple_skips(board, mvs[mid]) }

\* the ripple's loop reaches a quantum move that touches a classical cell
\* and collapses it
RippleCollapse ==
  /\ pc = "ripple"
  /\ ripple_pending(board_classical, moves, scan) # {}
  /\ LET mid == Min(ripple_pending(board_classical, moves, scan))
         mv  == moves[mid]
     IN  /\ \E chosen \in ripple_chosen(ripple_options(board_classical, mv)) :
              IF chosen = IndexError
                THEN /\ pc' = "error"
                     /\ UNCHANGED <<board_classical, moves, scan, changed>>
                ELSE /\ board_classical' = marked(board_classical, chosen, mv.player)
                     /\ moves' = [moves EXCEPT ![mid] = collapsed(mv, chosen)]
                     /\ scan' = mid + 1
                     /\ changed' = TRUE
                     /\ pc' = pc
  /\ UNCHANGED <<board_quantum, next_move_id, current_player, last_msg, cycle,
                 cycle_queue, winner, result, passes, quantum_before>>

\* a variant whose ripple never stops repeating
ripple_repeats_always(chg) == TRUE

\* a variant whose ripple makes one pass only
ripple_repeats_once(chg) == FALSE

\* a pass that collapsed a move is followed by another pass
ripple_repeats(chg) == chg

RippleAgain ==
  /\ pc = "ripple"
  /\ ripple_pending(board_classical, moves, scan) = {}
  /\ ripple_repeats(changed)
  /\ scan' = 0
  /\ changed' = FALSE
  /\ passes' = passes + 1
  /\ UNCHANGED <<board_classical, board_quantum, moves, next_move_id,
                 current_player, pc, last_msg, cycle, cycle_queue, winner, result,
                 quantum_before>>

\* a pass that collapsed nothing ends the loop; the labels are rebuilt and
\* collapse_cycle and play_turn return
CollapseDone ==
  /\ pc = "ripple"
  /\ ripple_pending(board_classical, moves, scan) = {}
  /\ ~ripple_repeats(changed)
  /\ board_quantum' = rebuild_labels(moves)
  /\ scan' = 0
  /\ passes' = 0
  /\ quantum_before' = 0
  /\ pc' = "judge"
  /\ UNCHANGED <<board_classical, moves, next_move_id, current_player, last_msg,
                 cycle, cycle_queue, changed, winner, result>>

-----------------------------------------------------------------------------
(* play: what follows each turn *)

Judge ==
  /\ pc = "judge"
  /\ winner' = check_winner(board_classical)
  /\ result' = play_outcome(board_classical)
  /\ IF play_outcome(board_classical) # "none"
       THEN pc' = "done" /\ UNCHANGED current_player
       ELSE pc' = "turn" /\ current_player' = other_player(current_player)
  /\ UNCHANGED <<board_classical, board_quantum, moves, next_move_id, last_msg,
                 cycle, cycle_queue, scan, changed, passes, quantum_before>>

Next ==
  \/ Malformed
  \/ RejectMove
  \/ ReadAgain
  \/ RegisterMove
  \/ CycleStep
  \/ RippleCollapse
  \/ RippleAgain
  \/ CollapseDone
  \/ Judge

Spec == Init /\ [][Next]_vars

-----------------------------------------------------------------------------------------------------------------------------------------------------
(* A game over all nine cells: the same program, with players who ask for  *)
(* neighbours among the lowest unmarked squares.                           *)

\* the squares without a classical mark, ascending
free_squares(board) == sorted({ c + 1 : c \in { d \in Cells : board[d] = None } })

\* the two lowest unmarked squares, or the second and third lowest
LowRequests(board) ==
  LET f == free_squares(board)
  IN  { <<f[k], f[k + 1]>> : k \in 1 .. Min({2, Len(f) - 1}) }

\* more moves than a game registers: every accepted move lies on unmarked
\* cells, at most NumCells - 1 moves are quantum together and every
\* collapse marks a cell
NoLimit == NumCells * NumCells

NextLong ==
  \/ MalformedWithin(NoLimit)
  \/ RejectMoveWithin(NoLimit)
  \/ ReadAgain
  \/ RegisterMoveFrom(LowRequests(board_classical), NoLimit)
  \/ CycleStep
  \/ RippleCollapse
  \/ RippleAgain
  \/ CollapseDone
  \/ Judge

SpecLong == Init /\ [][NextLong]_vars

-----------------------------------------------------------------------------
(* The evaluation of a board: check_winner and play's decision are         *)
(* functions of the classical board alone, here applied to every board.    *)

InitBoard ==
  /\ board_classical \in [Cells -> {None, "X", "O"}]
  /\ board_quantum = [c \in Cells |-> << >>]
  /\ moves = << >>
  /\ next_move_id = 1
  /\ current_player \in Players
  /\ pc = "judge"
  /\ last_msg = ""
  /\ cycle = {}
  /\ cycle_queue = << >>
  /\ scan = 0
  /\ changed = FALSE
  /\ winner = None
  /\ result = "none"
  /\ passes = 0
  /\ quantum_before = 0

NextBoard == Judge

SpecBoard == InitBoard /\ [][NextBoard]_vars

-----------------------------------------------------------------------------
(* Notions the properties are stated in *)

\* play_turn has returned, or has not been entered yet
TurnBoundary == pc \in {"turn", "rejected", "judge", "done"}

\* this step registers a move: the state it leads to is the one in which
\* find_cycle_moves ran
Registers == pc = "turn" /\ pc' \in {"cycle", "judge"}

Quantum(mvs) == { mid \in DOMAIN mvs : mvs[mid].status = "quantum" }

\* the cells joined to the cells in R by a chain of the moves in S
RECURSIVE Grow(_, _, _)
Grow(mvs, S, R) ==
  LET more == R \cup UNION { cell_pair(mvs[mid]) :
                               mid \in { k \in S : cell_pair(mvs[k]) \cap R # {} } }
  IN  IF more = R THEN R ELSE Grow(mvs, S, more)

\* the cells joined to cell a by a chain of the moves in S
Reachable(mvs, S, a) == Grow(mvs, S, {a})

\* the two cells of move m are joined by a chain of the moves in S
Joined(mvs, S, m) == mvs[m].cells[2] \in Reachable(mvs, S, mvs[m].cells[1])

\* the moves in S contain a cycle: some move of S joins two cells that the
\* rest of S joins already
HasCycle(mvs, S) == \E m \in S : Joined(mvs, S \ {m}, m)

Touching(mvs, S, c) == { mid \in S : c \in cell_pair(mvs[mid]) }

Opponent(pl) == CHOOSE q \in Players : q # pl

\* the move a collapse step is about to process
Processed(mid) ==
  \/ pc = "cycle" /\ cycle_queue # << >> /\ Head(cycle_queue) = mid
  \/ /\ pc = "ripple"
     /\ moves[mid].status = "quantum"
     /\ mid >= scan
     /\ \E c \in cell_pair(moves[mid]) : board_classical[c] # None
     /\ \A k \in DOMAIN moves :
          (k >= scan /\ k < mid /\ moves[k].status = "quantum")
            => \A c \in cell_pair(moves[k]) : board_classical[c] = None

\* the 8 lines of the 3 x 3 grid: rows, columns and the two diagonals
GridLines ==
  { {3 * r, 3 * r + 1, 3 * r + 2} : r \in 0 .. 2 }
    \cup { {c, c + 3, c + 6} : c \in 0 .. 2 }
    \cup { {0, 4, 8}, {2, 4, 6} }

HasLine(board, pl) == \E ln \in GridLines : \A c \in ln : board[c] = pl

\* the cells of a move that are unmarked or carry the mover's own mark
Eligible(board, mv) ==
  { c \in cell_pair(mv) : board[c] = None \/ board[c] = mv.player }

GameState == <<moves, next_move_id, board_classical, board_quantum, current_player>>

-----------------------------------------------------------------------------
(* Properties *)

\* C1: a cell of the classical board that holds a mark holds the same mark
\* after every step: no step of the collapse (cycle phase or ripple)
\* overwrites a mark with the other player's or clears it.
C1_ClassicalMarksKept ==
  [][\A c \in Cells :
       board_classical[c] # None => board_classical'[c] = board_classical[c]]_vars

\* a collapsed move one of whose cells carries the opponent's mark: the
\* collapse met a mark it had to keep
C1_Witness ==
  \E mid \in DOMAIN moves :
    /\ moves[mid].status = "collapsed"
    /\ \E c \in cell_pair(moves[mid]) :
         board_classical[c] = Opponent(moves[mid].player)

\* C2: when a collapse is complete, and so at every turn boundary, no
\* quantum move has a cell with a classical mark, and one more scan of the
\* ripple would collapse nothing.
C2_RippleFixpoint ==
  TurnBoundary =>
    /\ \A mid \in Quantum(moves) :
         \A c \in cell_pair(moves[mid]) : board_classical[c] = None
    /\ ripple_pending(board_classical, moves, 0) = {}

\* a collapse has just ended and left a quantum move behind
C2_Witness ==
  /\ pc = "judge"
  /\ cycle # {}
  /\ Quantum(moves) # {}
  /\ \E c \in Cells : board_classical[c] # None

\* C3: for the move m just inserted, find_cycle_moves returns a set exactly
\* when the cells of m are joined by a chain of the other quantum moves;
\* the set holds m and, besides m, only ids of quantum moves.
C3_CycleIffJoined ==
  [][Registers =>
       LET m == next_move_id
       IN  /\ (cycle' # {}) <=> Joined(moves', Quantum(moves') \ {m}, m)
           /\ cycle' # {} => (m \in cycle' /\ cycle' \subseteq Quantum(moves'))]_vars

\* find_cycle_moves has just reported a cycle of three moves or more
C3_Witness ==
  /\ pc = "cycle"
  /\ Len(cycle_queue) = Cardinality(cycle)
  /\ Cardinality(cycle) >= 3
  /\ \E mid \in Quantum(moves) : mid \notin cycle

\* C4: the set S find_cycle_moves reports is one simple cycle: every cell
\* a move of S touches is a cell of exactly two moves of S, and S without
\* any one of its moves contains no cycle.
C4_CycleMinimal ==
  [][(Registers /\ cycle' # {}) =>
       /\ \A mid \in cycle' : \A c \in cell_pair(moves'[mid]) :
            Cardinality(Touching(moves', cycle', c)) = 2
       /\ HasCycle(moves', cycle')
       /\ \A mid \in cycle' : ~HasCycle(moves', cycle' \ {mid})]_vars

\* a cycle has just been reported while a quantum move outside it shares
\* a cell with it
C4_Witness ==
  /\ pc = "cycle"
  /\ Len(cycle_queue) = Cardinality(cycle)
  /\ \E mid \in Quantum(moves) \ cycle : \E k \in cycle :
       cell_pair(moves[mid]) \cap cell_pair(moves[k]) # {}

\* C5: when the new move closes a cycle, every move of the reported set,
\* the new move included, is collapsed when the turn ends.
C5_CycleCollapsed ==
  (TurnBoundary /\ cycle # {}) =>
    \A mid \in cycle : moves[mid].status = "collapsed"

\* the triangle X:(0,1), O:(1,2), X:(0,2) at the end of the third turn
C5_Witness ==
  /\ pc = "judge"
  /\ cycle = {1, 2, 3}
  /\ cell_pair(moves[1]) = {0, 1}
  /\ cell_pair(moves[2]) = {1, 2}
  /\ cell_pair(moves[3]) = {0, 2}
  /\ \A mid \in cycle : moves[mid].status = "collapsed"

\* C6: the collapsed_to of a move, when it is a cell, is one of the two
\* cells of the move, and the cells of a move never change.
C6_CollapsedToEndpoint ==
  [][/\ \A mid \in DOMAIN moves :
          mid \in DOMAIN moves' /\ moves'[mid].cells = moves[mid].cells
     /\ \A mid \in DOMAIN moves' :
          moves'[mid].collapsed_to # NoCell
            => moves'[mid].collapsed_to \in cell_pair(moves'[mid])]_vars

\* one move collapsed to its first cell and another to its second
C6_Witness ==
  /\ \E mid \in DOMAIN moves :
       moves[mid].status = "collapsed" /\ moves[mid].collapsed_to = moves[mid].cells[1]
  /\ \E mid \in DOMAIN moves :
       moves[mid].status = "collapsed" /\ moves[mid].collapsed_to = moves[mid].cells[2]

\* C7: a collapse step that processes a move both of whose cells carry the
\* opponent's mark collapses it with collapsed_to = None, changes no cell
\* of the classical board and raises no error.
C7_BlockedMoveClaimsNothing ==
  [][\A mid \in DOMAIN moves :
       (/\ Processed(mid)
        /\ \A c \in cell_pair(moves[mid]) :
             board_classical[c] = Opponent(moves[mid].player))
       => /\ moves'[mid].status = "collapsed"
          /\ moves'[mid].collapsed_to = NoCell
          /\ board_classical' = board_classical
          /\ pc' # "error"]_vars

\* a move collapsed to None between two marks of the opponent
C7_Witness ==
  \E mid \in DOMAIN moves :
    /\ moves[mid].status = "collapsed"
    /\ moves[mid].collapsed_to = NoCell
    /\ \A c \in cell_pair(moves[mid]) :
         board_classical[c] = Opponent(moves[mid].player)

\* C8: check_winner is decided by the classical marks: None when no player
\* holds the three cells of a line, the player who alone holds a line, and
\* "both" when X and O each hold one.
C8_WinnerByLines ==
  pc \in {"turn", "done"} =>
    /\ (winner = None) <=>
         (~HasLine(board_classical, "X") /\ ~HasLine(board_classical, "O"))
    /\ \A pl \in Players :
         (winner = pl) <=>
           (HasLine(board_classical, pl) /\ ~HasLine(board_classical, Opponent(pl)))
    /\ (winner = "both") <=>
         (HasLine(board_classical, "X") /\ HasLine(board_classical, "O"))

\* a board on which each player holds a line has been evaluated
C8_Witness ==
  /\ pc = "done"
  /\ winner = "both"
  /\ HasLine(board_classical, "X")
  /\ HasLine(board_classical, "O")

\* C9: the game ends as a draw only on a full board without a complete
\* line; a full board with a complete line ends as a win or as "both"; the
\* game goes on to another turn only when no line is complete and the
\* board is not full.
C9_OutcomePriority ==
  LET line == HasLine(board_classical, "X") \/ HasLine(board_classical, "O")
      full == \A c \in Cells : board_classical[c] # None
  IN  /\ result = "draw" => (full /\ ~line)
      /\ (pc = "done" /\ line) => result \in {"X", "O", "both"}
      /\ pc = "done" <=> result # "none"
      /\ pc = "turn" => (~line /\ ~full)

\* a game has ended as a draw
C9_Witness ==
  /\ pc = "done"
  /\ result = "draw"
  /\ \A c \in Cells : board_classical[c] # None

\* C10: a request that play_turn rejects leaves the ledger, next_move_id,
\* both boards and the current player as they were, and a request is
\* accepted only with two different cells in 0..8 that carry no classical
\* mark: every move of the ledger has such cells.
C10_RejectedOrValid ==
  [][/\ (pc = "rejected" \/ pc' = "rejected") => UNCHANGED GameState
     /\ Registers =>
          /\ DOMAIN moves' = DOMAIN moves \cup {next_move_id}
          /\ \A c \in cell_pair(moves'[next_move_id]) :
               c \in Cells /\ board_classical[c] = None
     /\ \A mid \in DOMAIN moves' :
          /\ moves'[mid].cells[1] # moves'[mid].cells[2]
          /\ cell_pair(moves'[mid]) \subseteq Cells]_vars

\* a request that names a cell with a classical mark has been rejected
C10_Witness ==
  /\ pc = "rejected"
  /\ last_msg = "classical"

\* C11: a move enters the ledger as quantum; it becomes collapsed only in a
\* step of collapse_cycle; once collapsed it stays collapsed with the same
\* collapsed_to; a quantum move has collapsed_to = None.
C11_StatusOneWay ==
  [][\A mid \in DOMAIN moves' :
       /\ mid \notin DOMAIN moves => moves'[mid].status = "quantum"
       /\ moves'[mid].status \in {"quantum", "collapsed"}
       /\ moves'[mid].status = "quantum" => moves'[mid].collapsed_to = NoCell
       /\ mid \in DOMAIN moves =>
            /\ moves[mid].status = "collapsed" =>
                 /\ moves'[mid].status = "collapsed"
                 /\ moves'[mid].collapsed_to = moves[mid].collapsed_to
            /\ (moves[mid].status = "quantum" /\ moves'[mid].status = "collapsed")
                 => pc \in {"cycle", "ripple"}]_vars

\* a move collapsed to a cell in an earlier turn, and a later ripple that
\* passed over it
C11_Witness ==
  /\ pc = "ripple"
  /\ \E mid \in DOMAIN moves \ cycle :
       /\ moves[mid].status = "collapsed"
       /\ moves[mid].collapsed_to # NoCell
       /\ mid < scan
       /\ \A k \in cycle : mid < k

\* C12: a turn whose accepted move closes no cycle adds one quantum move under
\* the next id, advances next_move_id by one and appends the move's label to
\* the quantum labels of its two cells; the classical board and the existing
\* moves are unchanged, play_turn returns without a collapse, and no move
\* changes status or collapsed_to in a turn that detected no cycle.
C12_NoCycleTurnFrame ==
  [][/\ (Registers /\ ~Joined(moves', Quantum(moves), next_move_id)) =>
          LET m  == next_move_id
              mv == moves'[m]
              lb == label(current_player, m)
          IN  /\ DOMAIN moves' = DOMAIN moves \cup {m}
              /\ m \notin DOMAIN moves
              /\ \A k \in DOMAIN moves : moves'[k] = moves[k]
              /\ mv.player = current_player
              /\ mv.status = "quantum"
              /\ mv.collapsed_to = NoCell
              /\ mv.cells[1] # mv.cells[2]
              /\ next_move_id' = next_move_id + 1
              /\ \A c \in Cells :
                   board_quantum'[c] =
                     IF c \in cell_pair(mv) THEN Append(board_quantum[c], lb)
                                            ELSE board_quantum[c]
              /\ board_classical' = board_classical
              /\ current_player' = current_player
              /\ cycle' = {}
              /\ pc' = "judge"
     /\ (\E k \in DOMAIN moves : moves'[k] # moves[k]) => cycle # {}
     /\ board_classical' # board_classical => cycle # {}]_vars

\* a move that closed no cycle was registered while an earlier move stays
\* collapsed and another stays quantum
C12_Witness ==
  /\ pc = "judge"
  /\ cycle = {}
  /\ \E a, b, m \in DOMAIN moves :
       /\ m = next_move_id - 1
       /\ a < m /\ b < m
       /\ moves[a].status = "collapsed"
       /\ moves[b].status = "quantum"
       /\ moves[m].status = "quantum"
       /\ cell_pair(moves[m]) \cap cell_pair(moves[b]) # {}

\* C13: a collapse step that processes a move with an eligible cell (unmarked
\* or marked by the mover) collapses it to one of its eligible cells, never
\* to None and never to a cell of the opponent, and changes no other cell of
\* the classical board; each eligible cell is a possible outcome of the step.
C13_CollapseToEligible ==
  /\ [][\A mid \in DOMAIN moves :
          (Processed(mid) /\ Eligible(board_classical, moves[mid]) # {}) =>
            /\ moves'[mid].status = "collapsed"
            /\ moves'[mid].collapsed_to \in Eligible(board_classical, moves[mid])
            /\ board_classical[moves'[mid].collapsed_to] # Opponent(moves[mid].player)
            /\ board_classical'[moves'[mid].collapsed_to] = moves[mid].player
            /\ \A c \in Cells \ {moves'[mid].collapsed_to} :
                 board_classical'[c] = board_classical[c]]_vars
  /\ [](\A mid \in DOMAIN moves :
          Processed(mid) =>
            \A c \in Eligible(board_classical, moves[mid]) :
              ENABLED (Next /\ moves'[mid].collapsed_to = c))

\* the ripple collapsed a move to its only eligible cell, beside a cell of
\* the opponent, and a move of the cycle had two eligible cells
C13_Witness ==
  /\ pc = "ripple"
  /\ \E mid \in DOMAIN moves \ cycle :
       /\ moves[mid].status = "collapsed"
       /\ moves[mid].collapsed_to \in cell_pair(moves[mid])
       /\ board_classical[moves[mid].collapsed_to] = moves[mid].player
       /\ \E c \in cell_pair(moves[mid]) :
            board_classical[c] = Opponent(moves[mid].player)
  /\ \E k \in cycle : moves[k].collapsed_to = moves[k].cells[2]

\* C14: at every turn boundary the quantum labels of each cell c are exactly
\* the labels (player and id) of the quantum moves that have c among their
\* cells, each once, and no label of a collapsed move.
C14_LabelsMatchLedger ==
  TurnBoundary =>
    \A c \in Cells :
      LET here == Touching(moves, Quantum(moves), c)
      IN  /\ Range(board_quantum[c]) =
               { label(moves[mid].player, mid) : mid \in here }
          /\ Len(board_quantum[c]) = Cardinality(here)
          /\ \A mid \in DOMAIN moves \ Quantum(moves) :
               \A pl \in Players : label(pl, mid) \notin Range(board_quantum[c])

\* after a collapse the rebuild dropped the labels of the collapsed moves
\* from a cell that keeps the label of a move still quantum, and a later
\* move appended its label there
C14_Witness ==
  /\ pc = "judge"
  /\ cycle = {}
  /\ \E c \in Cells :
       /\ Len(board_quantum[c]) = 2
       /\ \E mid \in DOMAIN moves :
            moves[mid].status = "collapsed" /\ moves[mid].collapsed_to # NoCell

\* the quantity every step of collapse_cycle lowers
CollapseMeasure ==
  2 * Cardinality(Quantum(moves)) + (IF changed THEN 1 ELSE 0)

\* C15: collapse_cycle terminates. Every step of it can be followed by
\* another step until it returns, and every step lowers CollapseMeasure;
\* a pass of the ripple is followed by another pass only when it collapsed
\* a move that was quantum when the pass began, so the passes begun number
\* at most the quantum moves the ripple started with plus one.
C15_CollapseTerminates ==
  /\ [](pc \in {"cycle", "ripple"} => ENABLED Next)
  /\ [][(pc \in {"cycle", "ripple"}) =>
          \/ pc' \in {"judge", "error"}
          \/ /\ pc' \in {"cycle", "ripple"}
             /\ (IF pc = "cycle" /\ pc' = "ripple"
                   THEN Cardinality(Quantum(moves')) < Cardinality(Quantum(moves))
                   ELSE CollapseMeasure' < CollapseMeasure)]_vars
  /\ [][(pc = "ripple" /\ passes' = passes + 1) =>
          /\ changed
          /\ Cardinality(Quantum(moves)) + passes <= quantum_before]_vars
  /\ [](pc = "ripple" =>
          /\ passes >= 1
          /\ passes <= quantum_before + 1
          /\ passes + Cardinality(Quantum(moves)) <= quantum_before + 1)

\* the ripple is in its third pass: each of the first two collapsed a move
C15_Witness ==
  pc = "ripple" /\ passes = 3 /\ quantum_before = 2 /\ Quantum(moves) = {}

\* C16: the ids of the ledger are exactly 1 .. next_move_id - 1; a step that
\* registers a move uses the id next_move_id, which is above every id in
\* use; no step removes an entry and next_move_id never decreases.
C16_IdsAscending ==
  /\ [](DOMAIN moves = 1 .. (next_move_id - 1))
  /\ [][/\ DOMAIN moves \subseteq DOMAIN moves'
        /\ next_move_id' >= next_move_id
        /\ \A mid \in DOMAIN moves' \ DOMAIN moves :
             /\ mid = next_move_id
             /\ \A k \in DOMAIN moves : k < mid
             /\ next_move_id' = mid + 1
        /\ \A mid \in DOMAIN moves :
             /\ moves'[mid].player = moves[mid].player
             /\ moves'[mid].cells = moves[mid].cells]_vars

\* a move was registered under id 4 after a collapse that kept the entries
\* of the moves it collapsed
C16_Witness ==
  /\ next_move_id = 5
  /\ DOMAIN moves = 1 .. 4
  /\ moves[4].status = "quantum"
  /\ \E mid \in 1 .. 3 : moves[mid].status = "collapsed"

\* the quantum moves form a forest over the cells: no two of them lie on
\* the same pair of cells and they contain no cycle
Forest(mvs) ==
  /\ \A a, b \in Quantum(mvs) :
       cell_pair(mvs[a]) = cell_pair(mvs[b]) => a = b
  /\ ~HasCycle(mvs, Quantum(mvs))

\* C17: at every turn boundary the quantum moves form a forest; so when
\* build_graph runs without the new move m, edge_to_move names for each edge
\* the one quantum move on that pair of cells, every set of those moves that
\* joins the cells of m contains the reported path, and the reported set is
\* the same for either order in which find_path visits neighbours.
C17_QuantumForest ==
  /\ [](TurnBoundary => Forest(moves))
  /\ [][Registers =>
          LET m  == next_move_id
              S  == Quantum(moves') \ {m}
              g  == build_graph(moves', m)
          IN  /\ S = Quantum(moves)
              /\ \A e \in DOMAIN g.edge_to_move :
                   { mid \in S : cell_pair(moves'[mid]) = e } = {g.edge_to_move[e]}
              /\ \A mid \in S : cell_pair(moves'[mid]) \in DOMAIN g.edge_to_move
              /\ find_cycle_moves(moves', m, TRUE) = find_cycle_moves(moves', m, FALSE)
              /\ cycle' = find_cycle_moves(moves', m, TRUE)
              /\ \A T \in SUBSET S :
                   Joined(moves', T, m) => (cycle' # {} /\ cycle' \ {m} \subseteq T)]_vars

\* three quantum moves form a path over four cells at the end of a turn
C17_Witness ==
  /\ pc = "judge"
  /\ Cardinality(Quantum(moves)) = 3
  /\ \E c \in Cells : Cardinality(Grow(moves, Quantum(moves), {c})) = 4
  /\ \E c \in Cells : Cardinality(Touching(moves, Quantum(moves), c)) = 2

\* C18: whenever the game has not ended and a player is to move, at least
\* two cells carry no classical mark, so some request of two squares passes
\* the checks of play_turn.
C18_TwoCellsFree ==
  pc = "turn" =>
    /\ Cardinality({ c \in Cells : board_classical[c] = None }) >= 2
    /\ \E i, j \in Cells : validate(i, j, board_classical) = "ok"

\* C19: the classical board and the ledger agree: the cell a collapsed move
\* collapsed to carries that move's player, and every marked cell is the
\* collapsed_to of a collapsed move of the player whose mark it carries.
C19_BoardMatchesLedger ==
  /\ \A mid \in DOMAIN moves :
       (moves[mid].status = "collapsed" /\ moves[mid].collapsed_to # NoCell) =>
         /\ moves[mid].collapsed_to \in Cells
         /\ board_classical[moves[mid].collapsed_to] = moves[mid].player
  /\ \A c \in Cells :
       board_classical[c] # None =>
         \E mid \in DOMAIN moves :
           /\ moves[mid].status = "collapsed"
           /\ moves[mid].collapsed_to = c
           /\ moves[mid].player = board_classical[c]

\* two moves of one player collapsed to the same cell, and a move of the
\* other player collapsed to another
C19_Witness ==
  /\ \E a, b \in DOMAIN moves :
       /\ a # b
       /\ moves[a].status = "collapsed" /\ moves[b].status = "collapsed"
       /\ moves[a].collapsed_to = moves[b].collapsed_to
       /\ moves[a].collapsed_to # NoCell
  /\ \E c, d \in Cells : board_classical[c] = "X" /\ board_classical[d] = "O"

\* the cells that carry a classical mark
Classical(board) == { c \in Cells : board[c] # None }

\* C20: no step lowers the number of classical cells, and the first step of
\* every collapse, which processes the lowest id of the cycle, finds both
\* cells of that move unmarked and marks one of them; so every turn that
\* closes a cycle ends with more classical cells than it began with.
C20_CollapseMarksNewCell ==
  [][/\ Classical(board_classical) \subseteq Classical(board_classical')
     /\ (Registers /\ cycle' # {}) =>
          /\ pc' = "cycle"
          /\ cycle_queue' # << >>
          /\ \A k \in cycle' : Head(cycle_queue') <= k
     /\ (pc = "cycle" /\ Len(cycle_queue) = Cardinality(cycle)) =>
          LET mid == Head(cycle_queue)
          IN  /\ \A k \in cycle : mid <= k
              /\ \A c \in cell_pair(moves[mid]) : board_classical[c] = None
              /\ moves'[mid].collapsed_to \in cell_pair(moves[mid])
              /\ Classical(board_classical') =
                   Classical(board_classical) \cup {moves'[mid].collapsed_to}
              /\ Cardinality(Classical(board_classical')) =
                   Cardinality(Classical(board_classical)) + 1
     /\ (pc \in {"cycle", "ripple"} /\ pc' = "judge") =>
          \E mid \in cycle :
            /\ moves[mid].collapsed_to # NoCell
            /\ board_classical[moves[mid].collapsed_to] = moves[mid].player]_vars

\* a turn that closed a cycle of two moves of one player ended with one
\* classical cell: both moves collapsed to it
C20_Witness ==
  /\ pc = "judge"
  /\ Cardinality(cycle) = 2
  /\ Cardinality(Classical(board_classical)) = 1
  /\ \A mid \in cycle : moves[mid].status = "collapsed"

====
